---- MODULE Spec2Model ----
(***************************************************************************)
(* Model of the crawl in src/scraper.py: the session set-up               *)
(* (setup_browser), the prompt for the quota, the listing collector        *)
(* (collect_profile_urls), the per-profile extractor (scrape_profile), the *)
(* extraction loop and export of main, and the pure parts: the URL         *)
(* canonicalisation clean_profile_url, the aggregation of durations in     *)
(* scrape_experience and the selector resolver getText.                    *)
(*                                                                         *)
(* Text is modelled as a sequence of tokens: "" is << >>, the not-found    *)
(* sentinel "N/A" is <<"N/A">>, and joining strings with a separator is    *)
(* concatenation with the separator token in between.  A URL is the record *)
(* urlparse produces; its path is the sequence of segments after each "/"  *)
(* ("/in/a" is <<"in","a">>, "/in/a/" is <<"in","a","">>, "" is << >>).    *)
(***************************************************************************)
EXTENDS Integers, Sequences, FiniteSets, TLC

VARIABLES
    pc,                 \* position of main / collect_profile_urls
    limit,              \* main: limit
    profile_urls,       \* collect_profile_urls: profile_urls (a set)
    developer_profiles, \* collect_profile_urls: developer_profiles (a set)
    seen,               \* history: the raw URLs in the order they were first added
    attempt,            \* collect_profile_urls: attempt
    no_new_profiles_count,
    recovered,          \* history: the iteration just ended made the scroll-to-top recovery
    delayed,            \* history: the iteration just ended ran the pacing delay
    urls,               \* main: urls, the list collect_profile_urls returned
    results,            \* main: results
    exported,           \* the rows save_to_csv was called with (<< >> before)
    saved,              \* TRUE once save_to_csv has been called
    cu_in,              \* canonicalisation harness: the input URL
    cu_out,             \* canonicalisation harness: the value after cu_n applications
    cu_first,           \* canonicalisation harness: the value after one application
    cu_n,               \* canonicalisation harness: number of applications so far
    cookie_store,       \* what cookies.json holds
    cookie_writes,      \* history: number of writes of cookies.json in this run
    context_cookies,    \* the cookies of the browser context
    page_url,           \* page.url
    asked,              \* history: the prompts ask_question has returned from
    ex_in,              \* experience harness: the entries read from the list items
    ex_out,             \* experience harness: experience_data and the record's field
    ex_n,               \* experience harness: 1 once scrape_experience has returned
    gt_in,              \* getText harness: what the document holds for each selector
    gt_out,             \* getText harness: the value getText returned
    gt_n,               \* getText harness: 1 once getText has returned
    sc_pc,              \* auto_scroll harness: position in auto_scroll
    sc_max_rounds,      \* auto_scroll: max_rounds
    sc_rounds,          \* auto_scroll: rounds
    sc_last_height,     \* auto_scroll: last_height
    sc_probes,          \* auto_scroll harness: the heights probed in the latest round
    sc_failed           \* auto_scroll harness: TRUE once the except branch was taken

mainVars == <<pc, limit, profile_urls, developer_profiles, seen, attempt,
              no_new_profiles_count, recovered, delayed, urls, results, exported, saved>>
cleanVars == <<cu_in, cu_out, cu_first, cu_n>>
authVars == <<cookie_store, cookie_writes, context_cookies, page_url, asked>>
expVars == <<ex_in, ex_out, ex_n>>
textVars == <<gt_in, gt_out, gt_n>>
pureVars == <<cu_in, cu_out, cu_first, cu_n, ex_in, ex_out, ex_n, gt_in, gt_out, gt_n,
              sc_pc, sc_max_rounds, sc_rounds, sc_last_height, sc_probes, sc_failed>>
vars == <<pc, limit, profile_urls, developer_profiles, seen, attempt,
          no_new_profiles_count, recovered, delayed, urls, results, exported, saved,
          cu_in, cu_out, cu_first, cu_n,
          cookie_store, cookie_writes, context_cookies, page_url, asked,
          ex_in, ex_out, ex_n, gt_in, gt_out, gt_n,
          sc_pc, sc_max_rounds, sc_rounds, sc_last_height, sc_probes, sc_failed>>

----------------------------------------------------------------------------
(* Bounds of the model *)

\* Largest number the operator types at the quota prompt.
MaxQuota == 3
\* Largest number of cards one scan of the listing DOM returns.
MaxScan == 3

(* Program constants *)
max_attempts == 60
DefaultLimit == 5
StallThreshold == 5
MaxDetails == 5

----------------------------------------------------------------------------
(* Sequence helpers *)

Range(s) == {s[i] : i \in 1..Len(s)}

\* Every ordering of a finite set: the orders in which iterating a Python
\* set of str can deliver its elements (str hashes are salted per process).
RECURSIVE Orderings(_)
Orderings(S) ==
    IF S = {} THEN {<< >>}
    ELSE UNION {{<<x>> \o rest : rest \in Orderings(S \ {x})} : x \in S}

\* Python xs[:n], negative n included.
SliceTo(xs, n) ==
    LET k == IF n >= 0 THEN (IF n < Len(xs) THEN n ELSE Len(xs))
             ELSE (IF Len(xs) + n > 0 THEN Len(xs) + n ELSE 0)
    IN SubSeq(xs, 1, k)

\* The elements of s that are in S, in the order of s.
RECURSIVE Restrict(_, _)
Restrict(s, S) ==
    IF s = << >> THEN << >>
    ELSE IF Head(s) \in S THEN <<Head(s)>> \o Restrict(Tail(s), S)
    ELSE Restrict(Tail(s), S)

\* needle occurs in hay as a contiguous run of tokens.
ContainsRun(hay, needle) ==
    \E i \in 0..(Len(hay) - Len(needle)) :
        \A j \in 1..Len(needle) : hay[i + j] = needle[j]

----------------------------------------------------------------------------
(* clean_profile_url *)

Url(scheme, netloc, path, query, fragment) ==
    [scheme |-> scheme, netloc |-> netloc, path |-> path,
     query |-> query, fragment |-> fragment]

\* urljoin("https://www.linkedin.com", u) for a reference without a netloc:
\* the base supplies scheme and host, the reference its path, query, fragment.
urljoin(u) ==
    [u EXCEPT !.scheme = "https", !.netloc = "www.linkedin.com"]

\* "/in/" in path: some segment "in" is followed by a "/".
HasInSegment(path) == \E i \in 1..(Len(path) - 1) : path[i] = "in"

\* path.endswith("/")
EndsWithSlash(path) == Len(path) > 0 /\ path[Len(path)] = ""

\* Defective variant: the trailing slash is appended without the endswith test.
clean_profile_url_always_slash(u) ==
    LET parsed == IF u.netloc = "" THEN urljoin(u) ELSE u
    IN IF HasInSegment(parsed.path)
       THEN Url("https", "www.linkedin.com", Append(parsed.path, ""), "", "")
       ELSE parsed

clean_profile_url(u) ==
    LET parsed == IF u.netloc = "" THEN urljoin(u) ELSE u
        path == parsed.path
    IN IF HasInSegment(path)
       THEN Url("https", "www.linkedin.com",
                IF EndsWithSlash(path) THEN path ELSE Append(path, ""), "", "")
       ELSE parsed

\* The URLs the canonicalisation is exercised on: absolute and relative, with
\* and without an /in/ segment, a trailing slash, a query, a fragment.
Origins == {<<"https", "www.linkedin.com">>, <<"http", "in.linkedin.com">>, <<"", "">>}
Paths == {<< >>, <<"in">>, <<"in", "">>, <<"in", "a">>, <<"in", "a", "">>,
          <<"company", "x">>, <<"feed", "">>, <<"login", "in">>}
AllUrls ==
    {Url(o[1], o[2], p, q, f) : o \in Origins, p \in Paths,
                                q \in {"", "trk=x"}, f \in {"", "top"}}

NoUrl == Url("", "", << >>, "", "")

----------------------------------------------------------------------------
(* The URLs the page can be at *)

AboutBlank == Url("about", "", <<"blank">>, "", "")
FeedUrl == Url("https", "www.linkedin.com", <<"feed", "">>, "", "")
LoginUrl == Url("https", "www.linkedin.com", <<"login">>, "", "")
ChallengeUrl == Url("https", "www.linkedin.com", <<"checkpoint", "challenge", "x">>, "", "")
PeopleUrl ==
    Url("https", "www.linkedin.com", <<"company", "mobile-premier-league", "people", "">>, "", "")

\* "/login" in page.url or "challenge" in page.url
IsLoginUrl(u) ==
    \E i \in 1..Len(u.path) : u.path[i] \in {"login", "login-submit", "challenge"}

InitClean ==
    /\ cu_in \in AllUrls
    /\ cu_out = cu_in
    /\ cu_first = cu_in
    /\ cu_n = 0

\* One more application of clean_profile_url to the running value.
ApplyClean ==
    /\ cu_n < 2
    /\ cu_out' = clean_profile_url(cu_out)
    /\ cu_first' = IF cu_n = 0 THEN clean_profile_url(cu_out) ELSE cu_first
    /\ cu_n' = cu_n + 1
    /\ UNCHANGED cu_in

----------------------------------------------------------------------------
(* Text *)

NA == <<"N/A">>
Empty == << >>

\* sep.join(parts) on token sequences.
RECURSIVE Join(_, _)
Join(parts, sep) ==
    IF parts = << >> THEN << >>
    ELSE IF Len(parts) = 1 THEN parts[1]
    ELSE parts[1] \o <<sep>> \o Join(Tail(parts), sep)

\* str.lower() on the tokens the model uses.
LowerTok(t) ==
    CASE t = "Gameskraft" -> "gameskraft"
      [] t = "Technologies" -> "technologies"
      [] t = "Software" -> "software"
      [] t = "Engineer" -> "engineer"
      [] t = "Backend" -> "backend"
      [] t = "Developer" -> "developer"
      [] t = "Recruiter" -> "recruiter"
      [] t = "SDE" -> "sde"
      [] t = "At" -> "at"
      [] t = "N/A" -> "n/a"
      [] OTHER -> t

Lower(text) == [i \in 1..Len(text) |-> LowerTok(text[i])]

\* The elements of s that are not in S, in the order of s (str.replace(x, "")
\* for each token x of S).
RECURSIVE Without(_, _)
Without(s, S) ==
    IF s = << >> THEN << >>
    ELSE IF Head(s) \in S THEN Without(Tail(s), S)
    ELSE <<Head(s)>> \o Without(Tail(s), S)

----------------------------------------------------------------------------
(* is_developer_profile *)

developer_keywords ==
    {<<"software">>, <<"developer">>, <<"engineer">>, <<"programmer">>,
     <<"backend">>, <<"frontend">>, <<"full", "stack">>, <<"fullstack">>,
     <<"python">>, <<"java">>, <<"react">>, <<"javascript">>, <<"node">>,
     <<"angular">>, <<"vue">>, <<"devops">>, <<"sre">>, <<"tech", "lead">>,
     <<"technical">>, <<"architect">>, <<"senior">>, <<"lead">>,
     <<"principal">>, <<"staff">>, <<"api">>, <<"web">>, <<"mobile">>,
     <<"android">>, <<"ios">>, <<"flutter">>, <<"react", "native">>,
     <<"ml">>, <<"ai">>, <<"data", "scientist">>, <<"data", "engineer">>,
     <<"machine", "learning">>, <<"deep", "learning">>, <<"cloud">>,
     <<"aws">>, <<"azure">>, <<"gcp">>, <<"kubernetes">>, <<"docker">>,
     <<"microservices">>}

is_developer_profile(title) ==
    /\ title # Empty
    /\ title # NA
    /\ \E keyword \in developer_keywords : ContainsRun(Lower(title), keyword)

----------------------------------------------------------------------------
(* The listing page: the anchors a scan of the DOM can find, in document    *)
(* order.  inCard: the anchor is the first /in/ link of a profile card;     *)
(* title: the text the card's title selectors yield (Empty when none).      *)

Anchor(href, inCard, title) == [href |-> href, inCard |-> inCard, title |-> title]

Anchors ==
    <<Anchor(Url("https", "www.linkedin.com", <<"in", "a">>, "miniProfileUrn=x", ""),
             TRUE, <<"Software", "Engineer">>),
      Anchor(Url("https", "www.linkedin.com", <<"in", "a", "">>, "", ""),
             FALSE, Empty),
      Anchor(Url("https", "www.linkedin.com", <<"in", "b", "">>, "", ""),
             TRUE, <<"Backend", "Developer">>),
      Anchor(Url("https", "in.linkedin.com", <<"in", "c">>, "", "top"),
             TRUE, <<"Recruiter">>),
      Anchor(Url("https", "www.linkedin.com", <<"in", "d", "">>, "", ""),
             TRUE, Empty),
      Anchor(Url("https", "www.linkedin.com", <<"company", "acme", "in", "e">>, "", ""),
             TRUE, <<"Software", "Engineer">>)>>

\* A DOM snapshot is the set of anchors (by position) present at the scan.
Doms == {d \in SUBSET (1..Len(Anchors)) : Cardinality(d) <= MaxScan}

\* href.includes("/in/") and none of the excluded path markers.
IsProfileHref(h) ==
    /\ HasInSegment(h.path)
    /\ \A i \in 1..(Len(h.path) - 1) :
           h.path[i] \notin {"miniProfile", "company", "school", "feed"}

\* href.split('?')[0]: the query, and what follows it, is cut off.
SplitQuery(h) == IF h.query # "" THEN [h EXCEPT !.query = "", !.fragment = ""] ELSE h

\* The positions of dom in document order.
RECURSIVE InOrder(_, _)
InOrder(dom, n) ==
    IF n > Len(Anchors) THEN << >>
    ELSE IF n \in dom THEN <<n>> \o InOrder(dom, n + 1)
    ELSE InOrder(dom, n + 1)

\* The page.evaluate of the collection loop: strategy 1 reads the cards,
\* strategy 2 (only when strategy 1 found nothing) every /in/ link, untitled.
ScanDom(dom) ==
    LET order == InOrder(dom, 1)
        cards == SelectSeq(order, LAMBDA n : Anchors[n].inCard /\ IsProfileHref(Anchors[n].href))
        links == SelectSeq(order, LAMBDA n : IsProfileHref(Anchors[n].href))
    IN IF cards # << >>
       THEN [i \in 1..Len(cards) |->
                [url |-> SplitQuery(Anchors[cards[i]].href), title |-> Anchors[cards[i]].title]]
       ELSE [i \in 1..Len(links) |->
                [url |-> SplitQuery(Anchors[links[i]].href), title |-> Empty]]

\* What a scan can return, over every DOM snapshot.
ScanOutcomes == {ScanDom(dom) : dom \in Doms}

\* s followed by the elements of t not yet in it, each once, in t's order.
RECURSIVE AppendNew(_, _)
AppendNew(s, t) ==
    IF t = << >> THEN s
    ELSE IF Head(t) \in Range(s) THEN AppendNew(s, Tail(t))
    ELSE AppendNew(Append(s, Head(t)), Tail(t))

----------------------------------------------------------------------------
(* scrape_profile *)

Experience(company, title, duration, employmentType) ==
    [company |-> company, title |-> title, duration |-> duration,
     employmentType |-> employmentType]

\* What the browser shows for one profile: loads is FALSE when page.goto or
\* the wait for the h1 raises; basic_data, education_data, experience_data
\* and skills_data are what the four page evaluations return.
DetailPage(loads, name, title, location, education, experiences, company, total, skills) ==
    [loads |-> loads,
     basic_data |-> [name |-> name, title |-> title, location |-> location],
     education_data |-> education,
     experience_data |-> [experiences |-> experiences, currentCompany |-> company,
                          totalExperience |-> total],
     skills_data |-> skills]

PageTimeout ==
    DetailPage(FALSE, NA, NA, NA, Empty, << >>, NA, NA, << >>)
PageBlank ==
    DetailPage(TRUE, NA, NA, NA, Empty, << >>, NA, NA, << >>)
PageFull ==
    DetailPage(TRUE, <<"Asha", "Rao">>, <<"Software", "Engineer">>, <<"Bengaluru">>,
               <<"IIT Delhi">>,
               <<Experience(<<"Acme">>, <<"SDE">>, <<"1 yr 8 mos">>, <<"Full-time">>),
                 Experience(<<"Initech">>, <<"Intern">>, <<"0 yr 6 mos">>, Empty)>>,
               <<"Acme">>, <<"2 yrs 2 mos">>, <<<<"Python">>, <<"Go">>>>)
PageCollegeTitle ==
    DetailPage(TRUE, <<"Ravi", "K">>, <<"SDE", "|", "NIT Trichy">>, NA, Empty,
               <<Experience(<<"Gameskraft", "Technologies">>, <<"SDE">>, <<"Present">>, Empty)>>,
               <<"Gameskraft", "Technologies">>, NA, << >>)
PageNoTitle ==
    DetailPage(TRUE, <<"Mira", "S">>, NA, <<"Pune">>, Empty,
               <<Experience(<<"Gameskraft">>, <<"Analyst">>, <<"3 mos">>, Empty)>>,
               <<"Gameskraft">>, <<"0 yrs 3 mos">>, <<<<"SQL">>>>)

DetailPages == {PageTimeout, PageBlank, PageFull, PageCollegeTitle, PageNoTitle}

\* The tokens college_pattern matches.
CollegeTokens == {"NIT Trichy", "IIT Delhi", "Anna University"}

\* re.search(college_pattern, title_raw): the first match, or none.
college_match(title_raw) ==
    LET hits == {i \in 1..Len(title_raw) : title_raw[i] \in CollegeTokens}
    IN IF hits = {} THEN << >>
       ELSE <<title_raw[CHOOSE i \in hits : \A j \in hits : i <= j]>>

clean_na(val) == IF val = NA THEN Empty ELSE val

experience_detail(exp) ==
    exp.company \o <<"|">> \o exp.title \o <<"|">> \o exp.duration
        \o (IF exp.employmentType # Empty THEN <<"|">> \o exp.employmentType ELSE << >>)

FailedRecord(profile_url) ==
    [name |-> NA, title |-> NA, location |-> NA, education |-> NA,
     url |-> clean_profile_url(profile_url),
     total_experience |-> NA, experience_details |-> NA, skills |-> NA]

scrape_profile(page, profile_url) ==
    IF ~page.loads THEN FailedRecord(profile_url)
    ELSE
    LET url == clean_profile_url(profile_url)
        exps == page.experience_data.experiences
        experience_details == [i \in 1..Len(exps) |-> experience_detail(exps[i])]
        experience_details_str == Join(SliceTo(experience_details, MaxDetails), "||")
        skills_str == IF page.skills_data # << >> THEN Join(page.skills_data, "|") ELSE NA
        title_raw == page.basic_data.title
        college_name == college_match(title_raw)
        title_stripped == IF college_name # << >>
                          THEN Without(title_raw, {college_name[1], "|"})
                          ELSE title_raw
        current_company == page.experience_data.currentCompany
        title_clean == IF /\ ContainsRun(Lower(current_company), <<"gameskraft">>)
                          /\ ~ContainsRun(Lower(title_stripped), <<"at", "gameskraft">>)
                       THEN title_stripped \o <<"at", "Gameskraft">>
                       ELSE title_stripped
        education == IF page.education_data # Empty THEN page.education_data ELSE Empty
    IN [name |-> clean_na(page.basic_data.name),
        title |-> title_clean,
        location |-> clean_na(page.basic_data.location),
        education |-> education,
        url |-> url,
        total_experience |-> clean_na(page.experience_data.totalExperience),
        experience_details |-> clean_na(experience_details_str),
        skills |-> clean_na(skills_str)]

----------------------------------------------------------------------------
(* scrape_experience: the evaluation of the experience page *)

\* Longest experiences list the list items give.
MaxEntries == 2

\* The numbers written in the durations.
Numbers == 0..12 \cup {2020}
NumberTokens == {ToString(n) : n \in Numbers}

\* parseInt of a \d+ capture.
parseInt(tok) == CHOOSE n \in Numbers : ToString(n) = tok

\* The words (yr|year)s? and (mo|month)s? match, case-insensitively, at
\* their start.
YearWords == {"yr", "yrs", "year", "years", "Yrs"}
MonthWords == {"mo", "mos", "month", "months", "Mos"}

\* duration.match(/(\d+)\s*(unit)s?/i): the number captured by the leftmost
\* match, 0 when nothing matches (nothing is added then).
FirstCount(duration, units) ==
    LET hits == {i \in 1..(Len(duration) - 1) :
                    duration[i] \in NumberTokens /\ duration[i + 1] \in units}
    IN IF hits = {} THEN 0
       ELSE parseInt(duration[CHOOSE i \in hits : \A j \in hits : i <= j])

\* Lines 575-584: an entry is kept when its key company-title-duration is
\* new and neither its title nor its company is "N/A".
RECURSIVE uniqueExperiences(_, _)
uniqueExperiences(experiences, seenKeys) ==
    IF experiences = << >> THEN << >>
    ELSE LET exp == Head(experiences)
             key == exp.company \o <<"-">> \o exp.title \o <<"-">> \o exp.duration
         IN IF key \notin seenKeys /\ exp.title # NA /\ exp.company # NA
            THEN <<exp>> \o uniqueExperiences(Tail(experiences), seenKeys \cup {key})
            ELSE uniqueExperiences(Tail(experiences), seenKeys)

\* The forEach of lines 605-617 for one unit: the captured numbers added up.
RECURSIVE SumCounts(_, _)
SumCounts(exps, units) ==
    IF exps = << >> THEN 0
    ELSE FirstCount(Head(exps).duration, units) + SumCounts(Tail(exps), units)

\* Defective variant: the months are not carried into the years.
totalExperience_months_not_carried(exps) ==
    LET totalYears == SumCounts(exps, YearWords)
        totalMonths == SumCounts(exps, MonthWords)
    IN IF totalYears > 0 \/ totalMonths > 0
       THEN <<ToString(totalYears), "yrs", ToString(totalMonths), "mos">>
       ELSE NA

\* Lines 601-625, for the deduplicated entries.
totalExperience(exps) ==
    LET years == SumCounts(exps, YearWords)
        months == SumCounts(exps, MonthWords)
        totalYears == years + (months \div 12)
        totalMonths == months % 12
    IN IF totalYears > 0 \/ totalMonths > 0
       THEN <<ToString(totalYears), "yrs", ToString(totalMonths), "mos">>
       ELSE NA

\* Durations as the caption of a list item gives them.
Durations ==
    {<<"1", "yr", "8", "mos">>, <<"0", "yr", "6", "mos">>, <<"11", "mos">>,
     <<"2", "years", "1", "month">>,
     <<"Jan", "2020", "-", "Present", ".", "3", "yrs">>,
     <<"Present">>, NA, Empty}

\* The entries the list items can give.
ExperienceItems ==
    {Experience(company, <<"SDE">>, duration, Empty) :
         company \in {<<"Acme">>, <<"Initech">>, NA}, duration \in Durations}

ExperienceLists ==
    UNION {[1..n -> ExperienceItems] : n \in 0..MaxEntries}

\* experience_data when scrape_experience caught an exception.
FailedExperience == [experiences |-> << >>, totalExperience |-> NA]

\* The experience harness at rest.
ExpIdle ==
    /\ ex_in = << >>
    /\ ex_out = [experiences |-> << >>, totalExperience |-> NA, total_experience |-> Empty]
    /\ ex_n = 0

InitExp ==
    /\ ex_in \in ExperienceLists
    /\ ex_out = [experiences |-> << >>, totalExperience |-> NA, total_experience |-> Empty]
    /\ ex_n = 0

\* scrape_experience returns (the page evaluated, or an exception caught) and
\* scrape_profile puts the total through clean_na.
ApplyExperience ==
    /\ ex_n = 0
    /\ \E raised \in BOOLEAN :
         LET exps == uniqueExperiences(ex_in, {})
             experience_data == IF raised THEN FailedExperience
                                ELSE [experiences |-> exps,
                                      totalExperience |-> totalExperience(exps)]
         IN ex_out' = [experiences |-> experience_data.experiences,
                       totalExperience |-> experience_data.totalExperience,
                       total_experience |-> clean_na(experience_data.totalExperience)]
    /\ ex_n' = 1
    /\ UNCHANGED ex_in

----------------------------------------------------------------------------
(* scrape_profile: getText *)

\* Longest selector list.
MaxSelectors == 3

IsSpace(tok) == tok = " "

RECURSIVE trimStart(_)
trimStart(text) ==
    IF text # << >> /\ IsSpace(Head(text)) THEN trimStart(Tail(text)) ELSE text

RECURSIVE trimEnd(_)
trimEnd(text) ==
    IF text # << >> /\ IsSpace(text[Len(text)])
    THEN trimEnd(SubSeq(text, 1, Len(text) - 1))
    ELSE text

\* String.prototype.trim
trim(text) == trimEnd(trimStart(text))

\* What document.querySelector(sel) gives for one selector: no element, or
\* an element with its innerText.
Element(found, innerText) == [found |-> found, innerText |-> innerText]

Elements ==
    {Element(FALSE, Empty), Element(TRUE, Empty), Element(TRUE, <<" ">>),
     Element(TRUE, <<" ", "Asha", "Rao", " ">>), Element(TRUE, <<"Rao">>),
     Element(TRUE, NA)}

SelectorLists == UNION {[1..n -> Elements] : n \in 0..MaxSelectors}

\* Lines 660-666; selectors[i] is what the document holds for the (i)th
\* selector.
RECURSIVE getText(_)
getText(selectors) ==
    IF selectors = << >> THEN NA
    ELSE LET el == Head(selectors)
         IN IF el.found /\ el.innerText # Empty /\ trim(el.innerText) # Empty
            THEN trim(el.innerText)
            ELSE getText(Tail(selectors))

\* The getText harness at rest.
TextIdle ==
    /\ gt_in = << >>
    /\ gt_out = Empty
    /\ gt_n = 0

InitText ==
    /\ gt_in \in SelectorLists
    /\ gt_out = Empty
    /\ gt_n = 0

ApplyGetText ==
    /\ gt_n = 0
    /\ gt_out' = getText(gt_in)
    /\ gt_n' = 1
    /\ UNCHANGED gt_in

----------------------------------------------------------------------------
(* auto_scroll *)

\* Largest max_rounds a call passes.
MaxRounds == 3
\* Largest document.body.scrollHeight a probe returns.
MaxHeight == 3

Heights == 1..MaxHeight

scrollVars == <<sc_pc, sc_max_rounds, sc_rounds, sc_last_height, sc_probes, sc_failed>>

\* Everything auto_scroll leaves alone.
notScrollVars == <<mainVars, authVars, cleanVars, expVars, textVars>>

\* auto_scroll is not running.
ScrollIdle ==
    /\ sc_pc = "idle"
    /\ sc_max_rounds = 0
    /\ sc_rounds = 0
    /\ sc_last_height = 0
    /\ sc_probes = << >>
    /\ sc_failed = FALSE

\* auto_scroll is called with some max_rounds.
InitScroll ==
    /\ sc_pc = "start"
    /\ sc_max_rounds \in 0..MaxRounds
    /\ sc_rounds = 0
    /\ sc_last_height = 0
    /\ sc_probes = << >>
    /\ sc_failed = FALSE

\* Lines 65-66: the first probe of the height.
ScrollStart ==
    /\ sc_pc = "start"
    /\ sc_last_height' \in Heights
    /\ sc_pc' = "loop"
    /\ UNCHANGED <<sc_max_rounds, sc_rounds, sc_probes, sc_failed, notScrollVars>>

\* Defective variant: the loop is left after the first unchanged probe.
ScrollRoundNoNudge ==
    /\ sc_pc = "loop"
    /\ sc_rounds < sc_max_rounds
    /\ sc_rounds' = sc_rounds + 1
    /\ \E new_height \in Heights :
         /\ sc_probes' = <<new_height>>
         /\ sc_pc' = IF new_height = sc_last_height THEN "done" ELSE "loop"
         /\ sc_last_height' = new_height
    /\ UNCHANGED <<sc_max_rounds, sc_failed, notScrollVars>>

\* Lines 67-79, one round: the step scroll and its probe; when the height is
\* unchanged the nudge scroll and a second probe; break when that is
\* unchanged too, otherwise last_height takes the latest probe.
ScrollRound ==
    /\ sc_pc = "loop"
    /\ sc_rounds < sc_max_rounds
    /\ sc_rounds' = sc_rounds + 1
    /\ \E new_height \in Heights :
         IF new_height = sc_last_height
         THEN \E nudged_height \in Heights :
                 /\ sc_probes' = <<new_height, nudged_height>>
                 /\ IF nudged_height = sc_last_height
                    THEN sc_pc' = "done" /\ UNCHANGED sc_last_height
                    ELSE sc_pc' = "loop" /\ sc_last_height' = nudged_height
         ELSE /\ sc_probes' = <<new_height>>
              /\ sc_pc' = "loop"
              /\ sc_last_height' = new_height
    /\ UNCHANGED <<sc_max_rounds, sc_failed, notScrollVars>>

\* Line 67: the condition of the while fails, auto_scroll returns.
ScrollExhausted ==
    /\ sc_pc = "loop"
    /\ sc_rounds >= sc_max_rounds
    /\ sc_pc' = "done"
    /\ UNCHANGED <<sc_max_rounds, sc_rounds, sc_last_height, sc_probes, sc_failed, notScrollVars>>

\* Lines 81-82: a page call raises, at the first probe or within a round;
\* the exception is printed and auto_scroll returns.
ScrollFails ==
    /\ \/ sc_pc = "start" /\ UNCHANGED sc_rounds
       \/ sc_pc = "loop" /\ sc_rounds < sc_max_rounds /\ sc_rounds' = sc_rounds + 1
    /\ sc_probes' = << >>
    /\ sc_failed' = TRUE
    /\ sc_pc' = "done"
    /\ UNCHANGED <<sc_max_rounds, sc_last_height, notScrollVars>>

----------------------------------------------------------------------------
(* main *)

\* What the operator types at the quota prompt: a number, or something int()
\* rejects.
Answer(numeric, value) == [numeric |-> numeric, value |-> value]
Answers == {Answer(TRUE, n) : n \in (-1)..MaxQuota} \cup {Answer(FALSE, 0)}

\* try: limit = int(...) except Exception: limit = 5
parse_limit(answer) == IF answer.numeric THEN answer.value ELSE DefaultLimit

\* The locals of main and collect_profile_urls before they are assigned.
InitLocals ==
    /\ limit = 0
    /\ profile_urls = {}
    /\ developer_profiles = {}
    /\ seen = << >>
    /\ attempt = 0
    /\ no_new_profiles_count = 0
    /\ recovered = FALSE
    /\ delayed = FALSE
    /\ urls = << >>
    /\ results = << >>
    /\ exported = << >>
    /\ saved = FALSE

\* The canonicalisation harness at rest.
CleanIdle ==
    /\ cu_in = NoUrl
    /\ cu_out = NoUrl
    /\ cu_first = NoUrl
    /\ cu_n = 0

\* main at the quota prompt: setup_browser has returned with the session of
\* the cookie file, the feed loaded, no login was asked for.
Init ==
    /\ pc = "ask_limit"
    /\ InitLocals
    /\ CleanIdle
    /\ ExpIdle
    /\ TextIdle
    /\ ScrollIdle
    /\ cookie_store = "file"
    /\ cookie_writes = 0
    /\ context_cookies = "file"
    /\ page_url = FeedUrl
    /\ asked = << >>

collectVars == <<profile_urls, developer_profiles, seen, attempt, no_new_profiles_count,
                 recovered, delayed>>

\* main, the quota prompt, for an operator who types one of answers.
AskLimitFrom(answers) ==
    /\ pc = "ask_limit"
    /\ \E answer \in answers : limit' = parse_limit(answer)
    /\ asked' = Append(asked, "limit")
    /\ pc' = "goto_people"
    /\ UNCHANGED <<collectVars, urls, results, exported, saved, pureVars,
                   cookie_store, cookie_writes, context_cookies, page_url>>

AskLimit == AskLimitFrom(Answers)

\* collect_profile_urls up to the loop: the listing page loads.
CollectStart ==
    /\ pc = "goto_people"
    /\ profile_urls' = {}
    /\ developer_profiles' = {}
    /\ seen' = << >>
    /\ attempt' = 0
    /\ no_new_profiles_count' = 0
    /\ recovered' = FALSE
    /\ delayed' = FALSE
    /\ page_url' = PeopleUrl
    /\ pc' = "loop"
    /\ UNCHANGED <<limit, urls, results, exported, saved, pureVars,
                   cookie_store, cookie_writes, context_cookies, asked>>

\* page.goto(people_url) raises: nothing in collect_profile_urls or main
\* catches it, the handler of the entry point reports it.
CollectGotoFails ==
    /\ pc = "goto_people"
    /\ pc' = "crashed"
    /\ UNCHANGED <<limit, collectVars, urls, results, exported, saved, pureVars, authVars>>

\* Defective variant: the loop goes on after the quota is reached.
LoopRunsPastQuota == attempt < max_attempts

\* Line 790, the condition of the while loop.
LoopRuns == attempt < max_attempts /\ Cardinality(profile_urls) < limit

\* The set of URLs one scan adds to developer_profiles.
ScanDevelopers(url_data) ==
    {url_data[i].url : i \in {j \in 1..Len(url_data) : is_developer_profile(url_data[j].title)}}

DevelopersOf == [url_data \in ScanOutcomes |-> ScanDevelopers(url_data)]

\* Lines 942-946: the no-progress counter after the update of an iteration
\* that found new_profiles_found.
bumped_no_new(count, new_profiles_found) ==
    IF new_profiles_found = 0 THEN count + 1 ELSE 0

\* Line 949: the recovery (scroll to top, then to bottom) is due.
recovery_due(count, new_profiles_found) ==
    bumped_no_new(count, new_profiles_found) >= StallThreshold

\* Defective variant: the counter is not reset by the recovery.
next_no_new_never_reset(count, new_profiles_found) ==
    bumped_no_new(count, new_profiles_found)

\* The no-progress counter at the end of an iteration that found
\* new_profiles_found (lines 942-956).
next_no_new(count, new_profiles_found) ==
    IF recovery_due(count, new_profiles_found) THEN 0
    ELSE bumped_no_new(count, new_profiles_found)

\* Lines 959-964: the pacing delay runs unless the break was taken.
delay_runs(count, lim) == ~(count >= lim)

\* One iteration of the collection loop with the DOM the scan finds.
CollectIteration ==
    /\ pc = "loop"
    /\ LoopRuns
    /\ \E url_data \in ScanOutcomes :
         LET found == {url_data[i].url : i \in 1..Len(url_data)}
             new_profiles_found ==
                 Cardinality(profile_urls \cup found) - Cardinality(profile_urls)
         IN /\ profile_urls' = profile_urls \cup found
            /\ developer_profiles' = developer_profiles \cup DevelopersOf[url_data]
            /\ seen' = AppendNew(seen, [i \in 1..Len(url_data) |-> url_data[i].url])
            /\ no_new_profiles_count' = next_no_new(no_new_profiles_count, new_profiles_found)
            /\ recovered' = recovery_due(no_new_profiles_count, new_profiles_found)
            /\ delayed' = delay_runs(Cardinality(profile_urls \cup found), limit)
    /\ attempt' = attempt + 1
    /\ UNCHANGED <<pc, limit, urls, results, exported, saved, pureVars, authVars>>

\* The page.evaluate of an iteration raises: as for page.goto, and the
\* sets collected so far go with the frame.
CollectScanFails ==
    /\ pc = "loop"
    /\ LoopRuns
    /\ profile_urls' = {}
    /\ developer_profiles' = {}
    /\ seen' = << >>
    /\ attempt' = 0
    /\ no_new_profiles_count' = 0
    /\ recovered' = FALSE
    /\ delayed' = FALSE
    /\ pc' = "crashed"
    /\ UNCHANGED <<limit, urls, results, exported, saved, pureVars, authVars>>

\* Defective variant: the list is not filled up with the non-developer URLs.
final_list_developers_only(devOrder, other_profiles, lim) ==
    SliceTo(devOrder, lim)

\* Defective variant: the non-developer URLs are appended without the slice.
final_list_uncapped(devOrder, other_profiles, lim) ==
    LET first == SliceTo(devOrder, lim)
    IN IF Len(first) < lim THEN first \o other_profiles ELSE first

\* Defective variant: the list is cut from the whole set, developers not first.
final_list_unprioritized(devOrder, other_profiles, lim) ==
    SliceTo(other_profiles \o devOrder, lim)

\* Lines 966-977.  devOrder is the order in which list(developer_profiles)
\* delivers the set, other_profiles the order in which iterating profile_urls
\* delivers its members that are not in developer_profiles.
final_list(devOrder, other_profiles, lim) ==
    LET first == SliceTo(devOrder, lim)
    IN IF Len(first) < lim
       THEN first \o SliceTo(other_profiles, lim - Len(first))
       ELSE first

\* The loop is over (its condition fails, or the break was taken): the
\* list is built and returned.  The loop counters are dead from here on.
CollectReturn ==
    /\ pc = "loop"
    /\ ~LoopRuns
    /\ \E devOrder \in Orderings(developer_profiles),
          other_profiles \in Orderings(profile_urls \ developer_profiles) :
           urls' = final_list(devOrder, other_profiles, limit)
    /\ attempt' = 0
    /\ no_new_profiles_count' = 0
    /\ recovered' = FALSE
    /\ delayed' = FALSE
    /\ pc' = "check_urls"
    /\ UNCHANGED <<limit, profile_urls, developer_profiles, seen, results, exported,
                   saved, pureVars, authVars>>

\* Defective variant: the extraction loop is entered whatever urls holds.
CheckUrlsAlwaysExtract ==
    /\ pc = "check_urls"
    /\ pc' = "extract"
    /\ results' = << >>
    /\ profile_urls' = {}
    /\ developer_profiles' = {}
    /\ seen' = << >>
    /\ UNCHANGED <<limit, attempt, no_new_profiles_count, recovered, delayed, urls, exported, saved, pureVars, authVars>>

\* main, "if not urls": return without a result, or start the extraction
\* loop.  The frame of collect_profile_urls is gone.
CheckUrls ==
    /\ pc = "check_urls"
    /\ pc' = IF urls = << >> THEN "done" ELSE "extract"
    /\ results' = << >>
    /\ profile_urls' = {}
    /\ developer_profiles' = {}
    /\ seen' = << >>
    /\ UNCHANGED <<limit, attempt, no_new_profiles_count, recovered, delayed, urls, exported, saved, pureVars, authVars>>

\* Defective variant: the record of an iteration is appended twice.
ScrapeNextTwice ==
    /\ pc = "extract"
    /\ Len(results) < Len(urls)
    /\ \E page \in DetailPages :
           LET r == scrape_profile(page, urls[Len(results) + 1])
           IN results' = results \o <<r, r>>
    /\ UNCHANGED <<pc, limit, collectVars, urls, exported, saved, pureVars, authVars>>

\* What the call of scrape_profile gives main: a returned record, or an
\* exception.
Returns(value) == [raised |-> FALSE, value |-> value]
Raises == [raised |-> TRUE, value |-> << >>]

\* Defective variant: a failure inside scrape_profile is not caught there.
scrape_profile_call_uncaught(page, profile_url) ==
    IF page.loads THEN Returns(scrape_profile(page, profile_url)) ELSE Raises

\* scrape_profile with its try/except (lines 650, 763-770): an exception in
\* the body ends in the return of the failure record.
scrape_profile_call(page, profile_url) ==
    IF page.loads
    THEN Returns(scrape_profile(page, profile_url))
    ELSE Returns(FailedRecord(profile_url))

\* The record main appends in its own except branch (lines 1020-1029).
Placeholder(url) ==
    [name |-> <<"Failed to scrape">>, title |-> NA, location |-> NA, education |-> NA,
     url |-> url,
     total_experience |-> NA, experience_details |-> NA, skills |-> NA]

\* One iteration of the extraction loop: the (i)th URL, i = len(results)+1;
\* the record scrape_profile returns is appended, or the placeholder when
\* the call raises.
ScrapeNext ==
    /\ pc = "extract"
    /\ Len(results) < Len(urls)
    /\ \E page \in DetailPages :
           LET url == urls[Len(results) + 1]
               call == scrape_profile_call(page, url)
           IN results' = Append(results, IF call.raised THEN Placeholder(url) ELSE call.value)
    /\ UNCHANGED <<pc, limit, collectVars, urls, exported, saved, pureVars, authVars>>

\* After the loop: save_to_csv(results), then the browser is closed.
Export ==
    /\ pc = "extract"
    /\ Len(results) = Len(urls)
    /\ results # << >>
    /\ exported' = results
    /\ saved' = TRUE
    /\ pc' = "done"
    /\ UNCHANGED <<limit, collectVars, urls, results, pureVars, authVars>>

\* Ctrl-C at any suspension point of main: KeyboardInterrupt is no Exception,
\* so no handler inside main runs; the frames unwind, the entry point prints
\* and the process ends.  results keeps what had been collected by then.
Interrupt ==
    /\ pc \in {"load_cookies", "goto_feed", "check_login", "await_login",
              "ask_limit", "goto_people", "loop", "check_urls", "extract"}
    /\ pc' = "interrupted"
    /\ profile_urls' = {}
    /\ developer_profiles' = {}
    /\ seen' = << >>
    /\ attempt' = 0
    /\ no_new_profiles_count' = 0
    /\ recovered' = FALSE
    /\ delayed' = FALSE
    /\ UNCHANGED <<limit, urls, results, exported, saved, pureVars, authVars>>

Next ==
    \/ AskLimit
    \/ CollectStart
    \/ CollectGotoFails
    \/ CollectIteration
    \/ CollectScanFails
    \/ CollectReturn
    \/ CheckUrls
    \/ ScrapeNext
    \/ Export
    \/ Interrupt

Spec == Init /\ [][Next]_vars

----------------------------------------------------------------------------
(* setup_browser *)

\* cookies.json: no file, a file json.loads rejects, or a cookie list (the
\* empty list, the list a previous run left, the list of a logged-in session).
CookieLists == {"empty", "file", "session"}

\* A run from the launch of the browser: any cookie file a previous run or
\* save_cookies.py can have left.
InitAuth ==
    /\ pc = "load_cookies"
    /\ InitLocals
    /\ CleanIdle
    /\ ExpIdle
    /\ TextIdle
    /\ ScrollIdle
    /\ cookie_store \in {"absent", "corrupt", "file"}
    /\ cookie_writes = 0
    /\ context_cookies = "empty"
    /\ page_url = AboutBlank
    /\ asked = << >>

\* if cookies_path.exists(): try to load the file into the context; a
\* failure is printed and the context stays without cookies.
LoadCookies ==
    /\ pc = "load_cookies"
    /\ context_cookies' = IF cookie_store \in CookieLists THEN cookie_store ELSE context_cookies
    /\ pc' = "goto_feed"
    /\ UNCHANGED <<limit, collectVars, urls, results, exported, saved, pureVars,
                   cookie_store, cookie_writes, page_url, asked>>

\* Where the feed navigation can end: loaded is FALSE when page.goto or
\* wait_for_load_state raised (the exception is caught and printed).
FeedOutcomes(loaded) ==
    IF ~loaded THEN {AboutBlank, LoginUrl}
    ELSE IF context_cookies = "empty" THEN {LoginUrl, ChallengeUrl}
    ELSE {FeedUrl, LoginUrl, ChallengeUrl}

\* page.goto("https://www.linkedin.com/feed/") inside its try/except.
GotoFeed ==
    /\ pc = "goto_feed"
    /\ \E loaded \in BOOLEAN : page_url' \in FeedOutcomes(loaded)
    /\ pc' = "check_login"
    /\ UNCHANGED <<limit, collectVars, urls, results, exported, saved, pureVars,
                   cookie_store, cookie_writes, context_cookies, asked>>

\* Defective variant: the prompt for the manual login is skipped.
CheckLoginNoWait ==
    /\ pc = "check_login"
    /\ pc' = "ask_limit"
    /\ UNCHANGED <<limit, collectVars, urls, results, exported, saved, pureVars, authVars>>

\* Defective variant: the cookies are written whether or not a login page
\* was detected.
CheckLoginAlwaysSaves ==
    /\ pc = "check_login"
    /\ pc' = IF IsLoginUrl(page_url) THEN "await_login" ELSE "ask_limit"
    /\ cookie_store' = context_cookies
    /\ cookie_writes' = cookie_writes + 1
    /\ UNCHANGED <<limit, collectVars, urls, results, exported, saved, pureVars,
                   context_cookies, page_url, asked>>

\* if "/login" in page.url or "challenge" in page.url: wait for the
\* operator; otherwise setup_browser returns and main goes on.
CheckLogin ==
    /\ pc = "check_login"
    /\ pc' = IF IsLoginUrl(page_url) THEN "await_login" ELSE "ask_limit"
    /\ UNCHANGED <<limit, collectVars, urls, results, exported, saved, pureVars, authVars>>

\* The operator presses Enter at the login prompt, having logged in or not:
\* ask_question returns, the cookies of the context are written to
\* cookies.json and setup_browser returns.
LoginSignal ==
    /\ pc = "await_login"
    /\ \E logged_in \in BOOLEAN :
           /\ context_cookies' = IF logged_in THEN "session" ELSE context_cookies
           /\ page_url' = IF logged_in THEN FeedUrl ELSE page_url
    /\ asked' = Append(asked, "login")
    /\ cookie_store' = context_cookies'
    /\ cookie_writes' = cookie_writes + 1
    /\ pc' = "ask_limit"
    /\ UNCHANGED <<limit, collectVars, urls, results, exported, saved, pureVars>>

\* Largest number the operator types at the quota prompt in the runs that
\* start at the launch of the browser.
MaxAuthQuota == 2

AuthAnswers == {Answer(TRUE, n) : n \in 0..MaxAuthQuota}

AskLimitAuth == AskLimitFrom(AuthAnswers)

NextAuth ==
    \/ LoadCookies
    \/ GotoFeed
    \/ CheckLogin
    \/ LoginSignal
    \/ AskLimitAuth
    \/ CollectStart
    \/ CollectGotoFails
    \/ CollectIteration
    \/ CollectScanFails
    \/ CollectReturn
    \/ CheckUrls
    \/ ScrapeNext
    \/ Export
    \/ Interrupt

\* The whole run, setup_browser included.
SpecAuth == InitAuth /\ [][NextAuth]_vars

\* A step of collect_profile_urls from its loop.
LoopStep == CollectIteration \/ CollectScanFails \/ CollectReturn

\* main from the quota prompt on, for the operator of AuthAnswers.
NextLive ==
    \/ AskLimitAuth
    \/ CollectStart
    \/ CollectGotoFails
    \/ CollectIteration
    \/ CollectScanFails
    \/ CollectReturn
    \/ CheckUrls
    \/ ScrapeNext
    \/ Export
    \/ Interrupt

\* That run under the scheduling of the event loop: main is its only task
\* and every await of the collection loop ends (by completion, timeout or
\* exception), so the loop takes a step whenever it can.  Nothing is
\* assumed of the operator.
SpecLive == Init /\ [][NextLive]_vars /\ WF_vars(LoopStep)

\* The canonicalisation harness: any URL of AllUrls, cleaned twice.
InitCleanSpec ==
    /\ pc = "ask_limit"
    /\ InitLocals
    /\ cookie_store = "file"
    /\ cookie_writes = 0
    /\ context_cookies = "file"
    /\ page_url = FeedUrl
    /\ asked = << >>
    /\ InitClean
    /\ ExpIdle
    /\ TextIdle
    /\ ScrollIdle

NextClean == ApplyClean /\ UNCHANGED <<mainVars, authVars, expVars, textVars, scrollVars>>

SpecClean == InitCleanSpec /\ [][NextClean]_vars

\* The experience harness: any list of entries, aggregated once.
InitExpSpec ==
    /\ pc = "ask_limit"
    /\ InitLocals
    /\ cookie_store = "file"
    /\ cookie_writes = 0
    /\ context_cookies = "file"
    /\ page_url = FeedUrl
    /\ asked = << >>
    /\ CleanIdle
    /\ InitExp
    /\ TextIdle
    /\ ScrollIdle

NextExp == ApplyExperience /\ UNCHANGED <<mainVars, authVars, cleanVars, textVars, scrollVars>>

SpecExp == InitExpSpec /\ [][NextExp]_vars

\* The getText harness: any document, any selector list, resolved once.
InitTextSpec ==
    /\ pc = "ask_limit"
    /\ InitLocals
    /\ cookie_store = "file"
    /\ cookie_writes = 0
    /\ context_cookies = "file"
    /\ page_url = FeedUrl
    /\ asked = << >>
    /\ CleanIdle
    /\ ExpIdle
    /\ InitText
    /\ ScrollIdle

NextText == ApplyGetText /\ UNCHANGED <<mainVars, authVars, cleanVars, expVars, scrollVars>>

SpecText == InitTextSpec /\ [][NextText]_vars

\* The auto_scroll harness: any max_rounds, any sequence of heights.
InitScrollSpec ==
    /\ pc = "ask_limit"
    /\ InitLocals
    /\ cookie_store = "file"
    /\ cookie_writes = 0
    /\ context_cookies = "file"
    /\ page_url = FeedUrl
    /\ asked = << >>
    /\ CleanIdle
    /\ ExpIdle
    /\ TextIdle
    /\ InitScroll

NextScroll ==
    \/ ScrollStart
    \/ ScrollRound
    \/ ScrollExhausted
    \/ ScrollFails

\* Every await of auto_scroll ends (wait_for_timeout by time, a page call
\* by a value or an exception), so auto_scroll takes a step whenever it can.
SpecScroll == InitScrollSpec /\ [][NextScroll]_vars /\ WF_vars(NextScroll)

----------------------------------------------------------------------------
(* Properties *)

\* collect_profile_urls has just returned: its sets and its result coexist.
Returned == pc = "check_urls"

\* C1: for every quota q >= 0 and every sequence of listing contents,
\* collect_profile_urls returns a list of at most q identifiers.
C1_AtMostQuota == limit >= 0 => Len(urls) <= limit

\* C1 witness: the scans found more links than the quota and the returned
\* list was cut to the quota.
C1_Witness ==
    /\ Returned
    /\ limit >= 1
    /\ Cardinality(profile_urls) > limit
    /\ Len(urls) = limit

\* C2: in every state of a crawl the result list holds at most q records,
\* for every quota q >= 0.
C2_ResultsAtMostQuota == limit >= 0 => Len(results) <= limit

\* C2 witness: a crawl ran to its export with exactly q >= 2 records.
C2_Witness ==
    /\ pc = "done"
    /\ saved
    /\ limit >= 2
    /\ Len(results) = limit

\* C3: the returned list has no two entries with the same canonical form
\* under clean_profile_url, and its entries are in first-seen order.
C3_CanonicalUniqueFirstSeen ==
    Returned =>
        /\ \A i, j \in 1..Len(urls) :
               clean_profile_url(urls[i]) = clean_profile_url(urls[j]) => i = j
        /\ urls = Restrict(seen, Range(urls))

\* C4: clean_profile_url(clean_profile_url(u)) = clean_profile_url(u) for
\* every input URL u.
C4_Idempotent == cu_n = 2 => cu_out = cu_first

\* C4 witness: a URL the canonicalisation changes has been cleaned twice.
C4_Witness ==
    /\ cu_n = 2
    /\ HasInSegment(cu_first.path)
    /\ cu_first # cu_in
    /\ cu_in.netloc = ""

\* C5: in the returned list every priority identifier precedes every
\* non-priority one, a non-priority identifier is returned only when all
\* discovered priority identifiers are, and with quota 3 and 5 discovered
\* links of which 2 are priority the list is the 2 priority links followed
\* by exactly 1 non-priority link.
C5_PriorityFirst ==
    Returned =>
        /\ \A i, j \in 1..Len(urls) :
               (urls[i] \notin developer_profiles /\ urls[j] \in developer_profiles) => j < i
        /\ (\E i \in 1..Len(urls) : urls[i] \notin developer_profiles)
               => developer_profiles \subseteq Range(urls)
        /\ (limit = 3 /\ Cardinality(profile_urls) = 5 /\ Cardinality(developer_profiles) = 2)
               => /\ Len(urls) = 3
                  /\ {urls[1], urls[2]} = developer_profiles
                  /\ urls[3] \in profile_urls \ developer_profiles

\* C5 witness: quota 3, 5 links discovered, 2 of them priority.
C5_Witness ==
    /\ Returned
    /\ limit = 3
    /\ Cardinality(profile_urls) = 5
    /\ Cardinality(developer_profiles) = 2
    /\ Len(urls) = 3

\* C6: within the priority subset and within the non-priority subset the
\* returned list keeps discovery order, and when the priority subset alone
\* exceeds the quota the list is the first q priority identifiers in
\* discovery order.
C6_DiscoveryOrderWithinSubsets ==
    Returned =>
        /\ Restrict(urls, developer_profiles)
               = Restrict(seen, Range(urls) \cap developer_profiles)
        /\ Restrict(urls, profile_urls \ developer_profiles)
               = Restrict(seen, Range(urls) \ developer_profiles)
        /\ (limit >= 0 /\ Cardinality(developer_profiles) > limit)
               => urls = SliceTo(Restrict(seen, developer_profiles), limit)

\* The extraction loop of main has run over every discovered identifier.
LoopComplete == pc = "extract" /\ Len(results) = Len(urls)

\* C7: when the extraction loop has run to completion over n identifiers the
\* result has exactly n records and the i-th record carries the i-th
\* discovered identifier, whichever detail pages failed.
C7_OneRecordPerIdentifierInOrder ==
    LoopComplete =>
        /\ Len(results) = Len(urls)
        /\ \A i \in 1..Len(results) : results[i].url = urls[i]

\* The text fields of a record.
TextFields(r) ==
    {r.name, r.title, r.location, r.education, r.total_experience,
     r.experience_details, r.skills}

HasSentinel(text) == \E i \in 1..Len(text) : text[i] = "N/A"

\* C8: no field of a record handed to the export step equals or contains
\* the sentinel "N/A", for extracted and for failed records alike.
C8_NoSentinelExported ==
    saved => \A i \in 1..Len(exported) : \A f \in TextFields(exported[i]) : ~HasSentinel(f)

\* C9: the identifier of every record of the result list is a member of the
\* identifier set discovery returned.
C9_RecordUrlDiscovered ==
    \A i \in 1..Len(results) : results[i].url \in Range(urls)

\* C10: an interrupt that arrives after k >= 1 records were collected and
\* before the extraction loop finished still reaches save_to_csv with those
\* k records.
C10_InterruptStillExports ==
    (pc = "interrupted" /\ Len(results) >= 1 /\ Len(results) < Len(urls))
        => (saved /\ exported = results)

\* C11: when the URL after the feed navigation matches the login or
\* challenge pattern, the run waits at the login prompt and takes no
\* discovery step; the only way on is the operator's signal, with which the
\* cookies of the context are written to the cookie store, and that write
\* precedes the start of discovery.
C11_SuspendsUntilSignalThenPersists ==
    [][/\ (pc = "check_login" /\ IsLoginUrl(page_url))
            => pc' \in {"await_login", "interrupted"}
       /\ pc = "await_login"
            => \/ pc' = "interrupted"
               \/ /\ asked' = Append(asked, "login")
                  /\ cookie_writes' = cookie_writes + 1
                  /\ cookie_store' = context_cookies'
                  /\ pc' = "ask_limit"
                  /\ UNCHANGED collectVars
       /\ (pc' = "loop" /\ "login" \in Range(asked'))
            => (cookie_writes' = 1 /\ cookie_store' = context_cookies')]_vars

\* Discovery runs after a login was detected, signalled and saved.
C11_Witness ==
    /\ pc = "loop"
    /\ "login" \in Range(asked)
    /\ cookie_writes = 1
    /\ cookie_store = "session"

\* C12: discovery starts only with an authenticated context: never while
\* page.url still matches the login or challenge pattern, and never after
\* the feed navigation failed with no page loaded.
C12_DiscoveryOnlyWhenAuthenticated ==
    pc = "goto_people" => (~IsLoginUrl(page_url) /\ page_url # AboutBlank)

\* C13: when collect_profile_urls returns no URL, main ends at once: no
\* profile is scraped, the extraction loop does not run and save_to_csv is
\* not called.
C13_EmptyDiscoveryEndsRun ==
    (urls = << >> /\ pc \in {"extract", "done"})
        => (pc = "done" /\ results = << >> /\ exported = << >> /\ ~saved)

\* main has returned after a discovery that found nothing.
C13_Witness ==
    /\ pc = "done"
    /\ urls = << >>
    /\ "limit" \in Range(asked)
    /\ ~saved

\* The operator checkpoints taken so far.
Checkpoints == {i \in 1..Len(asked) : asked[i] = "checkpoint"}

\* C14: in collect_profile_urls, once a full pass has found no URL, exactly
\* one operator checkpoint is taken and at most one more pass follows.
C14_OneCheckpointOneRetry ==
    (pc = "loop" /\ profile_urls = {} /\ attempt >= 1)
        => (Cardinality(Checkpoints) = 1 /\ attempt <= 2)

\* C15: the quota main passes to collect_profile_urls is a positive integer.
C15_QuotaPositive == pc = "goto_people" => limit >= 1

\* The months of the durations of exps, a year counted as twelve.
RECURSIVE TotalMonths(_)
TotalMonths(exps) ==
    IF exps = << >> THEN 0
    ELSE 12 * FirstCount(Head(exps).duration, YearWords)
         + FirstCount(Head(exps).duration, MonthWords)
         + TotalMonths(Tail(exps))

\* C16: the total experience of a record is the sum of the years and months
\* parsed from the durations of the deduplicated entries, written
\* "X yrs Y mos" with Y in 0..11 ("1 yr 8 mos" and "0 yr 6 mos" give
\* "2 yrs 2 mos"), and is empty when nothing parses or the sum is zero.
C16_TotalExperienceIsNormalisedSum ==
    ex_n = 1 =>
        LET months == TotalMonths(ex_out.experiences)
        IN IF months = 0 THEN ex_out.total_experience = Empty
           ELSE \E y \in 0..months, m \in 0..11 :
                    /\ 12 * y + m = months
                    /\ ex_out.total_experience = <<ToString(y), "yrs", ToString(m), "mos">>

\* The entries "1 yr 8 mos" and "0 yr 6 mos" were aggregated to "2 yrs 2 mos".
C16_Witness ==
    /\ ex_n = 1
    /\ Len(ex_out.experiences) = 2
    /\ ex_out.experiences[1].duration = <<"1", "yr", "8", "mos">>
    /\ ex_out.experiences[2].duration = <<"0", "yr", "6", "mos">>
    /\ ex_out.total_experience = <<"2", "yrs", "2", "mos">>

\* The selectors whose element has text left after trimming.
Yielding(selectors) ==
    {i \in 1..Len(selectors) :
        selectors[i].found /\ trim(selectors[i].innerText) # Empty}

\* C17: getText returns the trimmed text of the first selector, in list
\* order, that gives non-empty trimmed text, and returns the sentinel if and
\* only if every selector gives no element or empty text.
C17_FirstNonEmptyElseSentinel ==
    gt_n = 1 =>
        LET hits == Yielding(gt_in)
        IN /\ (gt_out = NA) <=> (hits = {})
           /\ hits # {} =>
                  gt_out = trim(gt_in[CHOOSE i \in hits : \A j \in hits : i <= j].innerText)

\* C18: the rows handed to save_to_csv never hold two records with the same
\* url.
C18_NoDuplicateUrlExported ==
    saved => \A i, j \in 1..Len(exported) :
                 exported[i].url = exported[j].url => i = j

\* C19: no failure of a navigation or of a page evaluation leaves main as an
\* exception: a failing listing navigation or link scan still lets main
\* finish with the URLs found so far.
C19_NoFailureEscapesMain == pc # "crashed"

\* C20: within a run cookies.json is written only by the save that follows
\* a detected login or challenge URL and the operator's signal, and at most
\* once; every other step leaves it as it was.
C20_CookieStoreWrittenOnlyByLoginSave ==
    [][(cookie_store' # cookie_store \/ cookie_writes' # cookie_writes)
          => /\ pc = "await_login"
             /\ IsLoginUrl(page_url)
             /\ asked' = Append(asked, "login")
             /\ cookie_writes = 0
             /\ cookie_writes' = 1]_vars

\* A run that saved the cookies once and went on through export.
C20_Witness ==
    /\ saved
    /\ cookie_writes = 1
    /\ "login" \in Range(asked)

\* C21: the no-progress counter goes up by one after an iteration that adds
\* no URL and back to zero after one that adds some; on reaching 5 the
\* recovery (scroll to top, then bottom) is made and the counter is zero
\* again.  So it is in 0..4 at the end of every iteration and the recovery
\* is made exactly in the 5th of five consecutive iterations without
\* progress.
C21_NoProgressCounter ==
    [][(pc = "loop" /\ attempt' = attempt + 1) =>
         LET added == Cardinality(profile_urls') - Cardinality(profile_urls)
         IN /\ added > 0 => (no_new_profiles_count' = 0 /\ ~recovered')
            /\ (added = 0 /\ no_new_profiles_count < StallThreshold - 1)
                  => (no_new_profiles_count' = no_new_profiles_count + 1 /\ ~recovered')
            /\ (added = 0 /\ no_new_profiles_count = StallThreshold - 1)
                  => (no_new_profiles_count' = 0 /\ recovered')
            /\ no_new_profiles_count' \in 0..(StallThreshold - 1)]_vars

\* The recovery was made after progress had stopped.
C21_Witness ==
    /\ pc = "loop"
    /\ recovered
    /\ no_new_profiles_count = 0
    /\ profile_urls # {}

\* C22: the collection loop ends: it makes at most 60 iterations whatever
\* the listing shows, makes no iteration once the set has reached the
\* quota, and the iteration that reaches the quota is followed by no
\* recovery scroll and no pacing delay.
C22_LoopTerminates ==
    /\ [](attempt <= max_attempts)
    /\ [][(pc = "loop" /\ Cardinality(profile_urls) >= limit) => pc' # "loop"]_vars
    /\ []((pc = "loop" /\ attempt >= 1 /\ Cardinality(profile_urls) >= limit)
            => (~delayed /\ ~recovered))
    /\ ((pc = "loop") ~> (pc # "loop"))

\* Sixty iterations were made on a listing that never gave a link.
C22_Witness ==
    /\ pc = "loop"
    /\ attempt = max_attempts
    /\ profile_urls = {}

\* C23: auto_scroll ends after at most max_rounds rounds whatever heights
\* the probes return; it ends before max_rounds rounds, other than by an
\* exception, only in a round whose probe after the step scroll and probe
\* after the nudge scroll both equal the height recorded at the end of the
\* round before; and a round with a changed probe does not leave the loop.
C23_ScrollStopsOnStableHeightOrMaxRounds ==
    /\ [](sc_rounds <= sc_max_rounds)
    /\ <>(sc_pc = "done")
    /\ [][(sc_pc = "loop" /\ sc_pc' = "done" /\ ~sc_failed' /\ sc_rounds' < sc_max_rounds)
            => sc_probes' = <<sc_last_height, sc_last_height>>]_vars
    /\ [][(/\ sc_pc = "loop"
           /\ sc_rounds' = sc_rounds + 1
           /\ \E i \in 1..Len(sc_probes') : sc_probes'[i] # sc_last_height)
            => sc_pc' = "loop"]_vars

\* auto_scroll has stopped early, in its second round, on two unchanged
\* probes.
C23_Witness ==
    /\ sc_pc = "done"
    /\ ~sc_failed
    /\ sc_rounds = 2
    /\ sc_rounds < sc_max_rounds
    /\ sc_probes = <<sc_last_height, sc_last_height>>

\* C24: when the title of a profile holds a token recognised as the name of
\* an institution, the record has that token taken out of its title and put
\* into its education field.
C24_CollegeMovedFromTitleToEducation ==
    \A i \in 1..Len(results) : \A page \in DetailPages :
        (/\ page.loads
         /\ college_match(page.basic_data.title) # << >>
         /\ i <= Len(urls)
         /\ results[i] = scrape_profile(page, urls[i]))
            => LET college_name == college_match(page.basic_data.title)[1]
               IN /\ college_name \notin Range(results[i].title)
                  /\ college_name \in Range(results[i].education)

\* C25: developer_profiles is at all times a subset of profile_urls, and
\* for every quota q >= 0 the list collect_profile_urls returns has exactly
\* min(q, len(profile_urls)) entries, pairwise distinct and all members of
\* profile_urls.
C25_ReturnsMinOfQuotaAndFound ==
    /\ developer_profiles \subseteq profile_urls
    /\ (Returned /\ limit >= 0) =>
          /\ Len(urls) = IF limit <= Cardinality(profile_urls)
                         THEN limit ELSE Cardinality(profile_urls)
          /\ \A i, j \in 1..Len(urls) : urls[i] = urls[j] => i = j
          /\ Range(urls) \subseteq profile_urls

\* The loop gave up below the quota and every URL found is returned,
\* developers and others.
C25_Witness ==
    /\ Returned
    /\ Len(urls) < limit
    /\ Len(urls) = Cardinality(profile_urls)
    /\ developer_profiles # {}
    /\ developer_profiles # profile_urls

\* C26: no failure of a navigation or an extraction makes main append its
\* own placeholder record (name "Failed to scrape"): scrape_profile turns
\* every such exception into a returned record, so every failed profile is
\* in the results as the failure record of scrape_profile.
C26_PlaceholderNeverProduced ==
    /\ [](\A i \in 1..Len(results) : results[i].name # <<"Failed to scrape">>)
    /\ [][results' # results =>
            \E page \in DetailPages :
                results' = Append(results, scrape_profile(page, urls[Len(results) + 1]))]_vars

\* A profile failed to load and is in the results as the failure record.
C26_Witness ==
    \E i \in 1..Len(results) :
        i <= Len(urls) /\ results[i] = FailedRecord(urls[i])

====
